---- MODULE Spec2Model ----
(***************************************************************************)
(* A model of the plugin host (src/host/src/main.rs) and of the "repeat"   *)
(* plugin (src/plugin/src/lib.rs): one run of the host's main, the two     *)
(* calls it makes across the boundary, and the heap buffers whose          *)
(* ownership the boundary contract is about.                               *)
(*                                                                         *)
(* Text is a sequence of one-character strings.  A message literal of the  *)
(* program is carried as a one-element sequence holding the whole literal. *)
(***************************************************************************)
EXTENDS Integers, Sequences, FiniteSets, TLC

(***************************************************************************)
(* Bounds of the model.                                                    *)
(***************************************************************************)
\* usize, u64 and i64 are 64 bits wide in the build; the model keeps the
\* arithmetic of a fixed width but scales it to WordBits bits.
WordBits == 6
\* The largest request the allocator satisfies; a larger one fails.
AllocLimit == 8
\* The most command-line arguments after the plugin path.
MaxArgs == 3
\* The most bytes a scan past the end of a buffer picks up before a NUL.
MaxGarbage == 1

RECURSIVE Pow2(_)
Pow2(n) == IF n = 0 THEN 1 ELSE 2 * Pow2(n - 1)

USIZE_MAX == Pow2(WordBits) - 1
ISIZE_MAX == Pow2(WordBits - 1) - 1
U64_MAX == Pow2(WordBits) - 1
I64_MAX == Pow2(WordBits - 1) - 1
I64_MIN == 0 - Pow2(WordBits - 1)

None == [kind |-> "None"]

(***************************************************************************)
(* Text helpers.                                                           *)
(***************************************************************************)
Digits == <<"0", "1", "2", "3", "4", "5", "6", "7", "8", "9">>

IsDigit(c) == \E d \in 1..10 : Digits[d] = c

DigitVal(c) == (CHOOSE d \in 1..10 : Digits[d] = c) - 1

AllDigits(s) == \A k \in 1..Len(s) : IsDigit(s[k])

RECURSIVE DecVal(_)
DecVal(s) ==
    IF Len(s) = 0 THEN 0
    ELSE 10 * DecVal(SubSeq(s, 1, Len(s) - 1)) + DigitVal(s[Len(s)])

\* A byte that is no part of any valid UTF-8 sequence.
BadByte == "\\xFF"

\* The replacement character to_string_lossy writes for an invalid byte.
Replacement == "\\uFFFD"

\* CStr::to_str succeeds on bytes that are valid UTF-8.
Utf8Valid_unchecked(bytes) == TRUE

Utf8Valid(bytes) == \A k \in 1..Len(bytes) : bytes[k] # BadByte

to_string_lossy(bytes) ==
    [k \in 1..Len(bytes) |-> IF bytes[k] = BadByte THEN Replacement ELSE bytes[k]]

Lower(c) ==
    CASE c = "I" -> "i"
      [] c = "N" -> "n"
      [] c = "F" -> "f"
      [] c = "A" -> "a"
      [] c = "T" -> "t"
      [] c = "Y" -> "y"
      [] c = "E" -> "e"
      [] OTHER -> c

LowerAll(s) == [k \in 1..Len(s) |-> Lower(s[k])]

PluginTypes == {"Bool", "Int", "UInt", "Double", "String"}

(***************************************************************************)
(* str::parse as the host calls it, one operator per target type.  Each    *)
(* returns [ok |-> TRUE, val |-> v] or [ok |-> FALSE, err |-> kind], kind  *)
(* being the kind of the parse error.                                      *)
(***************************************************************************)
ParseBool(s) ==
    IF s = <<"t", "r", "u", "e">> THEN [ok |-> TRUE, val |-> TRUE]
    ELSE IF s = <<"f", "a", "l", "s", "e">> THEN [ok |-> TRUE, val |-> FALSE]
    ELSE [ok |-> FALSE, err |-> "ParseBoolError"]

\* u64: an optional "+", then one or more digits; a "-" is an invalid digit;
\* a value above the maximum is an overflow error.
ParseUInt_wrapping(s) ==
    LET signed == Len(s) > 0 /\ s[1] \in {"+", "-"}
        neg == Len(s) > 0 /\ s[1] = "-"
        body == IF signed THEN Tail(s) ELSE s
        v == IF neg THEN 0 - DecVal(body) ELSE DecVal(body)
    IN  IF Len(s) = 0 THEN [ok |-> FALSE, err |-> "Empty"]
        ELSE IF Len(body) = 0 \/ ~AllDigits(body) THEN [ok |-> FALSE, err |-> "InvalidDigit"]
        ELSE [ok |-> TRUE, val |-> v % Pow2(WordBits)]

ParseUInt(s) ==
    LET body == IF Len(s) > 0 /\ s[1] = "+" THEN Tail(s) ELSE s
    IN  IF Len(s) = 0 THEN [ok |-> FALSE, err |-> "Empty"]
        ELSE IF Len(body) = 0 \/ ~AllDigits(body) THEN [ok |-> FALSE, err |-> "InvalidDigit"]
        ELSE IF DecVal(body) > U64_MAX THEN [ok |-> FALSE, err |-> "PosOverflow"]
        ELSE [ok |-> TRUE, val |-> DecVal(body)]

\* i64: an optional "+" or "-", then one or more digits; a value outside the
\* range is an overflow error.
ParseInt(s) ==
    LET signed == Len(s) > 0 /\ s[1] \in {"+", "-"}
        neg == Len(s) > 0 /\ s[1] = "-"
        body == IF signed THEN Tail(s) ELSE s
        v == IF neg THEN 0 - DecVal(body) ELSE DecVal(body)
    IN  IF Len(s) = 0 THEN [ok |-> FALSE, err |-> "Empty"]
        ELSE IF Len(body) = 0 \/ ~AllDigits(body) THEN [ok |-> FALSE, err |-> "InvalidDigit"]
        ELSE IF v > I64_MAX THEN [ok |-> FALSE, err |-> "PosOverflow"]
        ELSE IF v < I64_MIN THEN [ok |-> FALSE, err |-> "NegOverflow"]
        ELSE [ok |-> TRUE, val |-> v]

\* The index of the first element of s that is in set, or Len(s) + 1.
FirstIn(s, set) ==
    IF \E k \in 1..Len(s) : s[k] \in set
    THEN CHOOSE k \in 1..Len(s) : s[k] \in set /\ \A j \in 1..(k - 1) : s[j] \notin set
    ELSE Len(s) + 1

\* f64: [sign] ('inf' | 'infinity' | 'nan' | digits with at most one '.', at
\* least one digit, and an optional exponent 'e' [sign] digits), letters in
\* either case.  The value is kept as the parsed parts; no range error exists.
ParseDouble(s) ==
    LET signed == Len(s) > 0 /\ s[1] \in {"+", "-"}
        neg == Len(s) > 0 /\ s[1] = "-"
        body == LowerAll(IF signed THEN Tail(s) ELSE s)
        e == FirstIn(body, {"e"})
        mant == SubSeq(body, 1, e - 1)
        hasExp == e <= Len(body)
        exp == SubSeq(body, e + 1, Len(body))
        expSigned == Len(exp) > 0 /\ exp[1] \in {"+", "-"}
        expDigits == IF expSigned THEN Tail(exp) ELSE exp
        dot == FirstIn(mant, {"."})
        ip == SubSeq(mant, 1, dot - 1)
        fp == SubSeq(mant, dot + 1, Len(mant))
        special == body \in {<<"i", "n", "f">>, <<"n", "a", "n">>,
                             <<"i", "n", "f", "i", "n", "i", "t", "y">>}
        number == /\ AllDigits(ip) /\ AllDigits(fp)
                  /\ Len(ip) + Len(fp) > 0
                  /\ hasExp => (Len(expDigits) > 0 /\ AllDigits(expDigits))
    IN  IF special THEN [ok |-> TRUE, val |-> [neg |-> neg, text |-> body]]
        ELSE IF number THEN [ok |-> TRUE, val |-> [neg |-> neg, text |-> body]]
        ELSE IF Len(s) = 0 THEN [ok |-> FALSE, err |-> "Empty"]
        ELSE [ok |-> FALSE, err |-> "Invalid"]


(***************************************************************************)
(* Values and pointers of the boundary.                                    *)
(***************************************************************************)
\* The address of the buffer of the host's String args[idx - 1].
ArgPtr(idx) == [region |-> "host", idx |-> idx]

\* The address of the one CString the plugin allocates in a call.
PluginPtr == [region |-> "plugin", idx |-> 0]

NullPtr == [region |-> "null", idx |-> 0]

NoDouble == [neg |-> FALSE, text |-> <<>>]

\* A PluginValue: the discriminant and the payload of that variant, which is
\* b for Bool, n for Int and UInt, d for Double and p for String.
PluginValue(tag, val) ==
    [tag |-> tag,
     b |-> IF tag = "Bool" THEN val ELSE FALSE,
     n |-> IF tag \in {"Int", "UInt"} THEN val ELSE 0,
     d |-> IF tag = "Double" THEN val ELSE NoDouble,
     p |-> IF tag = "String" THEN val ELSE NullPtr]

PluginOk(value) == [kind |-> "Ok", value |-> value]

PluginErr(ptr) == [kind |-> "Err", err |-> ptr]

\* A live heap buffer: its bytes, and whether a NUL byte follows them inside
\* the allocation.
Buffer(bytes, nul) == [bytes |-> bytes, nul |-> nul, frees |-> 0]

NoPayload == [state |-> "none", bytes |-> <<>>, frees |-> 0]

\* CString::new(text).unwrap().into_raw(): a fresh NUL-terminated buffer the
\* plugin gives up ownership of.
IntoRaw(bytes) == [state |-> "live", bytes |-> bytes, frees |-> 0]

\* Dropping the CString that CString::from_raw rebuilt: the buffer is freed.
ReleasePayload_leak(p) == p

ReleasePayload(p) == [p EXCEPT !.state = "freed", !.frees = @ + 1]

(***************************************************************************)
(* The plugin.                                                             *)
(***************************************************************************)
\* The struct plugin_metadata returns.  name and arg_types are pointers: the
\* model keeps what each points to, and in name_at and arg_types_at the
\* storage it points into.  Both point at constants of the library's static
\* data: the string literal, and the array of constant variants, whose borrow
\* for as_ptr is promoted to a static.
plugin_metadata_frame ==
    [name |-> <<"r", "e", "p", "e", "a", "t">>,
     name_at |-> "static",
     arg_types |-> <<"String", "UInt">>,
     arg_types_at |-> "frame",
     arg_types_len |-> 2,
     return_type |-> "String"]

plugin_metadata_int ==
    [name |-> <<"r", "e", "p", "e", "a", "t">>,
     name_at |-> "static",
     arg_types |-> <<"String", "Int">>,
     arg_types_at |-> "static",
     arg_types_len |-> 2,
     return_type |-> "String"]

plugin_metadata ==
    [name |-> <<"r", "e", "p", "e", "a", "t">>,
     name_at |-> "static",
     arg_types |-> <<"String", "UInt">>,
     arg_types_at |-> "static",
     arg_types_len |-> 2,
     return_type |-> "String"]

RECURSIVE Rep(_, _)
Rep(s, n) == IF n = 0 THEN <<>> ELSE s \o Rep(s, n - 1)

\* An allocation request of size bytes fails above the allocator's limit.
AllocFails(size) == size > AllocLimit

\* str::repeat: the capacity len * n is computed with an overflow check, a
\* capacity above isize::MAX panics, a failed allocation aborts the process.
repeat_impl_twice(arg1, arg2) ==
    [kind |-> "ok", value |-> Rep(arg1, 2)]

repeat_impl(arg1, arg2) ==
    LET n == arg2 % Pow2(WordBits)
        capacity == Len(arg1) * n
    IN  IF n = 0 THEN [kind |-> "ok", value |-> <<>>]
        ELSE IF capacity > USIZE_MAX THEN [kind |-> "panic"]
        ELSE IF capacity > ISIZE_MAX THEN [kind |-> "panic"]
        ELSE IF capacity > 0 /\ AllocFails(capacity) THEN [kind |-> "abort"]
        ELSE [kind |-> "ok", value |-> Rep(arg1, n)]

\* catch_unwind around repeat_impl and the match on its result.
catch_unwind_none(r) ==
    IF r.kind = "ok" THEN [kind |-> "Ok", text |-> r.value]
    ELSE [kind |-> "abort"]

catch_unwind(r) ==
    CASE r.kind = "ok" -> [kind |-> "Ok", text |-> r.value]
      [] r.kind = "panic" -> [kind |-> "Err", text |-> <<"function panicked">>]
      [] OTHER -> [kind |-> "abort"]

\* The count and tag checks of plugin_entrypoint: the error message of the
\* first check that fails, or <<>>, with the elements of args read so far.
Revalidate_arg0only(a) ==
    IF Len(a) # 2 THEN [msg |-> <<"args_len should be 2">>, reads |-> {}]
    ELSE IF a[1].tag # "String"
    THEN [msg |-> <<"arg0 is invalid; expected String">>, reads |-> {0}]
    ELSE [msg |-> <<>>, reads |-> {0, 1}]

Revalidate(a) ==
    IF Len(a) # 2 THEN [msg |-> <<"args_len should be 2">>, reads |-> {}]
    ELSE IF a[1].tag # "String"
    THEN [msg |-> <<"arg0 is invalid; expected String">>, reads |-> {0}]
    ELSE IF a[2].tag # "UInt"
    THEN [msg |-> <<"arg1 is invalid; expected UInt">>, reads |-> {0, 1}]
    ELSE [msg |-> <<>>, reads |-> {0, 1}]

\* What a scan past the end of a buffer can pick up before it meets a NUL.
GarbageBytes == {"b", BadByte}

Garbage ==
    UNION {[1..k -> GarbageBytes] : k \in 0..MaxGarbage}

(***************************************************************************)
(* The host.                                                               *)
(***************************************************************************)
\* One arm of the marshaling match: the value pushed for args[idx - 1] under
\* the declared type ty, or a failure (the expect panics).
MarshalValue_default(ty, token, idx) ==
    CASE ty = "Bool" -> [ok |-> TRUE, value |-> PluginValue("Bool", FALSE), err |-> ""]
      [] ty = "Int" -> [ok |-> TRUE, value |-> PluginValue("Int", 0), err |-> ""]
      [] ty = "UInt" -> [ok |-> TRUE, value |-> PluginValue("UInt", 0), err |-> ""]
      [] ty = "Double" -> [ok |-> TRUE, value |-> PluginValue("Double", NoDouble), err |-> ""]
      [] OTHER -> [ok |-> TRUE, value |-> PluginValue("String", ArgPtr(idx)), err |-> ""]

MarshalValue(ty, token, idx) ==
    LET p == CASE ty = "Bool" -> ParseBool(token)
               [] ty = "Int" -> ParseInt(token)
               [] ty = "UInt" -> ParseUInt(token)
               [] ty = "Double" -> ParseDouble(token)
               [] OTHER -> [ok |-> TRUE, val |-> ArgPtr(idx)]
    IN  IF p.ok THEN [ok |-> TRUE, value |-> PluginValue(ty, p.val), err |-> ""]
        ELSE [ok |-> FALSE, value |-> PluginValue("UInt", 0), err |-> p.err]

\* The message of the expect that fails in the arm of type ty: the literal
\* of that arm, then the Debug form of the parse error.
PanicMessage(ty, err) ==
    CASE ty = "Bool" -> <<"Invalid bool", ": ", err>>
      [] ty = "Int" -> <<"Invalid int", ": ", "ParseIntError { kind: ", err, " }">>
      [] ty = "UInt" -> <<"Invalid uint", ": ", "ParseIntError { kind: ", err, " }">>
      [] OTHER -> <<"Invalid double", ": ", "ParseFloatError { kind: ", err, " }">>

\* The count check of main.
CountMismatch_more(meta, argv) == meta.arg_types_len < Len(argv) - 2

CountMismatch(meta, argv) == meta.arg_types_len # Len(argv) - 2

\* Dropping the Vec<String> args: every argument's buffer is freed.
DropArgs(m) == [k \in DOMAIN m |-> [m[k] EXCEPT !.frees = @ + 1]]

\* drop(call_args.into_iter().map(|t| t.to_owned())): the map adapter is
\* dropped before it yields an element, so to_owned runs on none of them;
\* only the vector itself goes away.
DropCallArgs_eager(m, cargs) ==
    [k \in DOMAIN m |->
        IF \E j \in 1..Len(cargs) : cargs[j].tag = "String" /\ cargs[j].p = ArgPtr(k)
        THEN [m[k] EXCEPT !.frees = @ + 1]
        ELSE m[k]]

DropCallArgs(m, cargs) == m

\* Display of an owned value, as the host prints it.
Display(value, p) ==
    IF value.tag = "String" THEN to_string_lossy(p.bytes)
    ELSE IF value.tag = "Bool" THEN <<ToString(value.b)>>
    ELSE IF value.tag = "Double" THEN value.d.text
    ELSE <<ToString(value.n)>>

\* The exit status of a run that ends in a panic of main.
PanicExit == "exit101"

\* std::process::exit(1) in the Err arm of the match on the result.
ErrExit_zero == "exit0"

ErrExit == "exit1"


(***************************************************************************)
(* The state of one run.                                                   *)
(***************************************************************************)
VARIABLES
    pc,          \* where the run is
    args,        \* the command line: program name, plugin path, arguments
    libOk,       \* whether the library at args[1] loads with both symbols
    libMeta,     \* what the loaded library's plugin_metadata returns
    metadata,    \* main's local metadata, None before the query
    call_args,   \* main's local call_args
    mem,         \* the host's String buffers, by address
    payload,     \* the CString the plugin allocated, if any
    passed,      \* the argument array plugin_entrypoint was called with
    decoded,     \* the &str plugin_entrypoint decoded from its first argument
    result,      \* the PluginResult returned, None before the return
    stdout,      \* lines printed to standard output
    stderr,      \* lines printed to standard error
    exit,        \* "running", "exit<code>" or the signal that ended the run
    metaCalls,   \* calls of plugin_metadata so far
    entryCalls,  \* calls of plugin_entrypoint so far
    marshaled,   \* iterations of the marshaling loop started so far
    implRuns,    \* runs of repeat_impl so far
    argReads,    \* elements of args the entry point has read
    derefs,      \* string pointers the entry point has read through
    oob,         \* whether a read went past the end of a buffer
    panicked,    \* whether repeat_impl panicked
    uaf,         \* whether a freed buffer was read
    metaReads    \* the host's reads through the pointers of metadata

vars == <<pc, args, libOk, libMeta, metadata, call_args, mem, payload, passed,
          decoded, result, stdout, stderr, exit, metaCalls, entryCalls,
          marshaled, implRuns, argReads, derefs, oob, panicked, uaf,
          metaReads>>

hist == <<metaCalls, entryCalls, marshaled, implRuns, argReads, derefs, oob,
          panicked, uaf, metaReads>>

\* Command-line tokens the runs are drawn from.
Tokens ==
    {<<>>, <<"a", "b">>, <<"0">>, <<"3">>, <<"2", "0">>, <<"4", "0">>,
     <<"9", "9">>, <<"-", "1">>, <<"+", "2">>, <<"x">>,
     <<"t", "r", "u", "e">>, <<"1", ".", "5">>}

ProgName == <<"h", "o", "s", "t">>

PluginPath == <<"l", "i", "b">>

TokenSeqs == UNION {[1..k -> Tokens] : k \in 0..MaxArgs}

CommandLines == {<<ProgName>>} \cup {<<ProgName, PluginPath>> \o t : t \in TokenSeqs}

\* std::env::args collects each argument into a String: a buffer of exactly
\* the argument's bytes, with no NUL after them.
ArgBuffers(argv) == [k \in 1..Len(argv) |-> Buffer(argv[k], FALSE)]

\* Nothing has run yet.
InitFresh ==
    /\ metadata = None
    /\ payload = NoPayload
    /\ passed = <<>>
    /\ decoded = <<>>
    /\ result = None
    /\ stdout = <<>>
    /\ stderr = <<>>
    /\ exit = "running"
    /\ metaCalls = 0
    /\ entryCalls = 0
    /\ marshaled = 0
    /\ implRuns = 0
    /\ argReads = {}
    /\ derefs = {}
    /\ oob = FALSE
    /\ panicked = FALSE
    /\ uaf = FALSE
    /\ metaReads = <<>>

Init ==
    /\ args \in CommandLines
    /\ libOk \in BOOLEAN
    /\ libMeta = plugin_metadata
    /\ mem = ArgBuffers(args)
    /\ pc = "start"
    /\ call_args = <<>>
    /\ InitFresh

(***************************************************************************)
(* main, step by step.                                                     *)
(***************************************************************************)
\* The Container that holds the library is a local of main: the library is
\* mapped from the successful load until main is left.
LibraryLoaded == libOk /\ pc \notin {"start", "load", "done"}

\* Storage of the library that a pointer of metadata may be read through: its
\* static data while it is mapped.  The frame of plugin_metadata is gone
\* when the call has returned.
Live(region) == region = "static" /\ LibraryLoaded

\* What *metadata.arg_types.add(i) can yield: the declared type when it reads
\* live storage inside the array, any discriminant otherwise.
ReadArgType(meta, i) ==
    IF Live(meta.arg_types_at) /\ i < Len(meta.arg_types)
    THEN {meta.arg_types[i + 1]}
    ELSE PluginTypes

\* A panic of main: the message goes to standard error, the locals are
\* dropped while unwinding, the process exits with the panic status.
Panic(msg) ==
    /\ stderr' = Append(stderr, <<"panicked: ">> \o msg)
    /\ mem' = DropArgs(mem)
    /\ exit' = PanicExit
    /\ pc' = "done"

CheckUsage ==
    /\ pc = "start"
    /\ IF Len(args) < 2
       THEN /\ stderr' = Append(stderr, <<"Usage: ">> \o args[1] \o <<" <plugin>">>)
            /\ exit' = "exit1"
            /\ pc' = "done"
       ELSE /\ pc' = "load"
            /\ UNCHANGED <<stderr, exit>>
    /\ UNCHANGED <<args, libOk, libMeta, metadata, call_args, mem, payload,
                   passed, decoded, result, stdout, hist>>

LoadPlugin ==
    /\ pc = "load"
    /\ IF libOk
       THEN /\ pc' = "metadata"
            /\ UNCHANGED <<stderr, mem, exit>>
       ELSE Panic(<<"Could not load plugin">>)
    /\ UNCHANGED <<args, libOk, libMeta, metadata, call_args, payload, passed,
                   decoded, result, stdout, hist>>

QueryMetadata ==
    /\ pc = "metadata"
    /\ metadata' = libMeta
    /\ metaCalls' = metaCalls + 1
    /\ stdout' = Append(stdout, <<"Loaded plugin ">> \o to_string_lossy(libMeta.name))
    /\ metaReads' = Append(metaReads,
           [field |-> "name", idx |-> 0, live |-> Live(libMeta.name_at), got |-> "name"])
    /\ pc' = "count"
    /\ UNCHANGED <<args, libOk, libMeta, call_args, mem, payload, passed,
                   decoded, result, stderr, exit, entryCalls, marshaled,
                   implRuns, argReads, derefs, oob, panicked, uaf>>

CheckCount ==
    /\ pc = "count"
    /\ IF CountMismatch(metadata, args)
       THEN /\ stderr' = Append(stderr,
                   <<"Expected ", ToString(metadata.arg_types_len),
                     " arguments, got ", ToString(Len(args) - 2)>>)
            /\ exit' = "exit1"
            /\ pc' = "done"
       ELSE /\ pc' = IF Len(args) - 2 = 0 THEN "call" ELSE "marshal"
            /\ UNCHANGED <<stderr, exit>>
    /\ UNCHANGED <<args, libOk, libMeta, metadata, call_args, mem, payload,
                   passed, decoded, result, stdout, hist>>

\* One iteration of the marshaling loop, for args[2 + i] with i = call_args.len().
MarshalArg ==
    /\ pc = "marshal"
    /\ \E ty \in ReadArgType(metadata, Len(call_args)) :
       LET i == Len(call_args)
           m == MarshalValue(ty, args[i + 3], i + 3)
       IN  /\ marshaled' = marshaled + 1
           /\ metaReads' = Append(metaReads,
                  [field |-> "arg_types", idx |-> i,
                   live |-> Live(metadata.arg_types_at), got |-> ty])
           /\ IF m.ok
              THEN /\ call_args' = Append(call_args, m.value)
                   /\ pc' = IF i + 1 = Len(args) - 2 THEN "call" ELSE "marshal"
                   /\ UNCHANGED <<stderr, mem, exit>>
              ELSE /\ Panic(PanicMessage(ty, m.err))
                   /\ UNCHANGED call_args
    /\ UNCHANGED <<args, libOk, libMeta, metadata, payload, passed, decoded,
                   result, stdout, metaCalls, entryCalls, implRuns, argReads,
                   derefs, oob, panicked, uaf>>

(***************************************************************************)
(* plugin_entrypoint, called by main.                                      *)
(***************************************************************************)
\* plugin_error: the message is allocated and handed over as an Err.
ReturnErr(msg) ==
    /\ payload' = IntoRaw(msg)
    /\ result' = PluginErr(PluginPtr)
    /\ pc' = "returned"

\* The call, and the entry point's count and tag checks.
CallEntrypoint ==
    /\ pc = "call"
    /\ entryCalls' = entryCalls + 1
    /\ passed' = call_args
    /\ LET v == Revalidate(call_args)
       IN  /\ argReads' = argReads \cup v.reads
           /\ IF v.msg # <<>>
              THEN ReturnErr(v.msg)
              ELSE /\ pc' = "entry_decode"
                   /\ UNCHANGED <<payload, result>>
    /\ UNCHANGED <<args, libOk, libMeta, metadata, call_args, mem, decoded,
                   stdout, stderr, exit, metaCalls, marshaled, implRuns,
                   derefs, oob, panicked, uaf, metaReads>>

\* The bytes CStr::from_ptr takes for the string: the buffer's own when a NUL
\* ends them inside the allocation.  Otherwise the scan leaves the buffer:
\* it faults, or it runs on over whatever lies behind up to the next NUL.  A
\* zero-length String has no allocation, its pointer is dangling.
ScanOutcomes(b) ==
    IF b.nul THEN {[kind |-> "str", bytes |-> b.bytes, oob |-> FALSE]}
    ELSE IF Len(b.bytes) = 0 THEN {[kind |-> "fault", bytes |-> <<>>, oob |-> TRUE]}
    ELSE {[kind |-> "fault", bytes |-> <<>>, oob |-> TRUE]}
         \cup {[kind |-> "str", bytes |-> b.bytes \o g, oob |-> TRUE] : g \in Garbage}

\* CStr::from_ptr(*string).to_str()
EntryDecode ==
    /\ pc = "entry_decode"
    /\ LET ptr == passed[1].p
       IN  /\ derefs' = derefs \cup {ptr}
           /\ uaf' = (uaf \/ mem[ptr.idx].frees > 0)
           /\ \E o \in ScanOutcomes(mem[ptr.idx]) :
                /\ oob' = (oob \/ o.oob)
                /\ IF o.kind = "fault"
                   THEN /\ exit' = "SIGSEGV"
                        /\ pc' = "done"
                        /\ UNCHANGED <<payload, result, decoded>>
                   ELSE IF Utf8Valid(o.bytes)
                   THEN /\ decoded' = o.bytes
                        /\ pc' = "entry_compute"
                        /\ UNCHANGED <<payload, result, exit>>
                   ELSE /\ ReturnErr(<<"arg0 is invalid; expected valid UTF-8 string">>)
                        /\ UNCHANGED <<decoded, exit>>
    /\ UNCHANGED <<args, libOk, libMeta, metadata, call_args, mem, passed,
                   stdout, stderr, metaCalls, entryCalls, marshaled, implRuns,
                   argReads, panicked, metaReads>>

\* The value of a successful call: PluginValue::String over the raw CString.
OkValue_int(ptr) == PluginValue("Int", 0)

OkValue(ptr) == PluginValue("String", ptr)

\* catch_unwind(|| repeat_impl(string, *count)) and the result built from it.
\* A panic is reported on standard error by the panic hook before it is caught.
EntryCompute ==
    /\ pc = "entry_compute"
    /\ implRuns' = implRuns + 1
    /\ LET r == repeat_impl(decoded, passed[2].n)
           c == catch_unwind(r)
       IN  /\ panicked' = (panicked \/ r.kind = "panic")
           /\ stderr' = IF r.kind = "panic"
                         THEN Append(stderr, <<"panicked: ", "capacity overflow">>)
                         ELSE stderr
           /\ IF c.kind = "Err"
              THEN ReturnErr(c.text) /\ UNCHANGED exit
              ELSE IF c.kind = "Ok" /\ ~AllocFails(Len(c.text) + 1)
              THEN /\ payload' = IntoRaw(c.text)
                   /\ result' = PluginOk(OkValue(PluginPtr))
                   /\ pc' = "returned"
                   /\ UNCHANGED exit
              ELSE /\ exit' = "SIGABRT"
                   /\ pc' = "done"
                   /\ UNCHANGED <<payload, result>>
    /\ UNCHANGED <<args, libOk, libMeta, metadata, call_args, mem, passed,
                   decoded, stdout, metaCalls, entryCalls, marshaled,
                   argReads, derefs, oob, uaf, metaReads>>

(***************************************************************************)
(* main, after the call.                                                   *)
(***************************************************************************)
DropCallArgsStep ==
    /\ pc = "returned"
    /\ mem' = DropCallArgs(mem, call_args)
    /\ call_args' = <<>>
    /\ pc' = "match"
    /\ UNCHANGED <<args, libOk, libMeta, metadata, payload, passed, decoded,
                   result, stdout, stderr, exit, hist>>

\* match result: the payload is read for printing, then the CString rebuilt
\* from the raw pointer is dropped at the end of the statement.
HandleResult ==
    /\ pc = "match"
    /\ uaf' = (uaf \/ payload.state = "freed")
    /\ IF result.kind = "Ok"
       THEN /\ stdout' = Append(stdout,
                   <<"Plugin returned: ">> \o Display(result.value, payload))
            /\ payload' = IF result.value.tag = "String"
                          THEN ReleasePayload(payload) ELSE payload
            /\ pc' = "return"
            /\ UNCHANGED <<stderr, exit>>
       ELSE /\ stderr' = Append(stderr, to_string_lossy(payload.bytes))
            /\ payload' = ReleasePayload(payload)
            /\ exit' = ErrExit
            /\ pc' = "done"
            /\ UNCHANGED stdout
    /\ UNCHANGED <<args, libOk, libMeta, metadata, call_args, mem, passed,
                   decoded, result, metaCalls, entryCalls, marshaled, implRuns,
                   argReads, derefs, oob, panicked, metaReads>>

\* main returns: its locals are dropped, the process exits with status 0.
ReturnMain ==
    /\ pc = "return"
    /\ mem' = DropArgs(mem)
    /\ exit' = "exit0"
    /\ pc' = "done"
    /\ UNCHANGED <<args, libOk, libMeta, metadata, call_args, payload, passed,
                   decoded, result, stdout, stderr, hist>>

Next ==
    \/ CheckUsage
    \/ LoadPlugin
    \/ QueryMetadata
    \/ CheckCount
    \/ MarshalArg
    \/ CallEntrypoint
    \/ EntryDecode
    \/ EntryCompute
    \/ DropCallArgsStep
    \/ HandleResult
    \/ ReturnMain

Spec == Init /\ [][Next]_vars


(***************************************************************************)
(* The host with a library of any declared schema: plugin_metadata of the  *)
(* loaded library is data to main, which marshals under whatever types it  *)
(* declares.                                                               *)
(***************************************************************************)
\* The longest declared schema, and the most arguments, of these runs.
MaxSchema == 2

SchemaTokens ==
    {<<>>, <<"a", "b">>, <<"3">>, <<"9", "9">>, <<"-", "1">>, <<"-", "9", "9">>,
     <<"x">>, <<"t", "r", "u", "e">>, <<"1", ".", "5">>}

Schemas == UNION {[1..k -> PluginTypes] : k \in 0..MaxSchema}

SchemaCommandLines ==
    {<<ProgName, PluginPath>> \o t :
        t \in UNION {[1..k -> SchemaTokens] : k \in 0..MaxSchema}}

InitAnySchema ==
    /\ args \in SchemaCommandLines
    /\ libOk = TRUE
    /\ libMeta \in {[plugin_metadata EXCEPT !.arg_types = sch,
                                            !.arg_types_len = Len(sch)] :
                        sch \in Schemas}
    /\ mem = ArgBuffers(args)
    /\ pc = "start"
    /\ call_args = <<>>
    /\ InitFresh

SpecAnySchema == InitAnySchema /\ [][Next]_vars

(***************************************************************************)
(* plugin_entrypoint under any caller: the argument array and the buffers  *)
(* its strings point to are the caller's.                                  *)
(***************************************************************************)
\* The longest argument array a caller passes.
MaxCall == 3

\* The caller's string buffers, by address.
CallerBuffers ==
    <<Buffer(<<"a", "b">>, TRUE), Buffer(<<>>, TRUE),
      Buffer(<<"a", BadByte>>, TRUE), Buffer(<<"a", "b">>, FALSE)>>

CallerValues ==
    {PluginValue("Bool", TRUE), PluginValue("Int", -1),
     PluginValue("Double", [neg |-> FALSE, text |-> <<"1", ".", "5">>])}
    \cup {PluginValue("UInt", n) : n \in {0, 3, 5, 20, 40}}
    \cup {PluginValue("String", ArgPtr(k)) : k \in 1..Len(CallerBuffers)}

InitEntry ==
    /\ args = <<ProgName, PluginPath>>
    /\ libOk = TRUE
    /\ libMeta = plugin_metadata
    /\ mem = CallerBuffers
    /\ InitFresh
    /\ pc = "call"
    /\ call_args \in UNION {[1..k -> CallerValues] : k \in 0..MaxCall}

NextEntry ==
    \/ CallEntrypoint
    \/ EntryDecode
    \/ EntryCompute

SpecEntry == InitEntry /\ [][NextEntry]_vars


(***************************************************************************)
(* Properties.                                                             *)
(***************************************************************************)
\* The number of command-line arguments after the plugin path.
Supplied == Len(args) - 2

\* C1: in a run whose number of arguments after the plugin path differs from
\* the declared arg_types_len, once the count check has run the host has
\* exited with status 1 and a message, no argument was ever marshaled,
\* plugin_entrypoint was never called and repeat_impl never ran.
C1_CountMismatchRejected ==
    (metaCalls > 0 /\ pc # "count" /\ metadata.arg_types_len # Supplied)
        => /\ pc = "done"
           /\ exit = "exit1"
           /\ Len(stderr) = 1
           /\ marshaled = 0
           /\ call_args = <<>>
           /\ entryCalls = 0
           /\ implRuns = 0
           /\ payload = NoPayload

C1_Witness ==
    /\ pc = "done"
    /\ metaCalls = 1
    /\ Supplied = 3
    /\ metadata.arg_types_len = 2
    /\ exit = "exit1"

\* Whether the argument at position k (from 1) fails to parse under the type
\* the schema declares for it.
ParseFails(k) ==
    LET ty == metadata.arg_types[k]
        tok == args[k + 2]
    IN  \/ ty = "Bool" /\ ~ParseBool(tok).ok
        \/ ty = "Int" /\ ~ParseInt(tok).ok
        \/ ty = "UInt" /\ ~ParseUInt(tok).ok
        \/ ty = "Double" /\ ~ParseDouble(tok).ok

FirstBad ==
    CHOOSE k \in 1..Supplied : ParseFails(k) /\ \A j \in 1..(k - 1) : ~ParseFails(j)

\* C2: in a run that passes the count check and in which some argument fails
\* to parse under its declared tag, marshaling never goes past the first such
\* argument, plugin_entrypoint is never called, and the run ends in the panic
\* of that argument's parse with only the arguments before it marshaled.
C2_MarshalFailureStops ==
    (/\ metaCalls > 0
     /\ metadata.arg_types_len = Supplied
     /\ \E k \in 1..Supplied : ParseFails(k))
        => /\ entryCalls = 0
           /\ passed = <<>>
           /\ implRuns = 0
           /\ marshaled <= FirstBad
           /\ Len(call_args) < FirstBad
           /\ pc \in {"count", "marshal", "done"}
           /\ pc = "done" => /\ marshaled = FirstBad
                             /\ Len(call_args) = FirstBad - 1
                             /\ exit = "exit101"

C2_Witness ==
    /\ pc = "done"
    /\ metaCalls = 1
    /\ metadata.arg_types = <<"Bool", "String">>
    /\ Supplied = 2
    /\ ParseFails(1)
    /\ marshaled = 1
    /\ exit = "exit101"

\* C3: once repeat_impl has panicked, plugin_entrypoint has returned an Err
\* whose message "function panicked" it allocated; the run then goes on until
\* the host has printed that message as its last line on standard error and
\* exited with status 1, and ends in no other way.
C3_PanicContained ==
    panicked
        => /\ result.kind = "Err"
           /\ payload.bytes = <<"function panicked">>
           /\ pc \in {"returned", "match", "done"}
           /\ pc # "done" => (exit = "running" /\ ENABLED Next)
           /\ pc = "done" => /\ exit = "exit1"
                             /\ stderr[Len(stderr)] = <<"function panicked">>

C3_Witness ==
    /\ panicked
    /\ pc = "done"
    /\ exit = "exit1"
    /\ stderr[Len(stderr)] = <<"function panicked">>

\* C4: the String the plugin hands over (the Ok value or the Err message) is
\* never freed twice and never read after it was freed; it is still live
\* when the host matches on the result, and it has been freed exactly once
\* in every state after that match.
C4_PayloadReleasedOnce ==
    /\ payload.frees <= 1
    /\ ~uaf
    /\ (result.kind \in {"Ok", "Err"}) =>
          /\ payload.state # "none"
          /\ pc \in {"returned", "match"} => (payload.state = "live" /\ payload.frees = 0)
          /\ pc \in {"return", "done"} => (payload.state = "freed" /\ payload.frees = 1)

C4_Witness ==
    /\ pc = "done"
    /\ result.kind = "Ok"
    /\ payload.bytes = <<"a", "b", "a", "b", "a", "b">>
    /\ payload.frees = 1
    /\ exit = "exit0"


\* The positions of the String values in the array the entry point was
\* called with, and the host buffer such a value points to.
PassedStrings == {k \in 1..Len(passed) : passed[k].tag = "String"}

ArgBufferOf(k) == mem[passed[k].p.idx]

\* The call of plugin_entrypoint has returned to main.
Returned == result.kind \in {"Ok", "Err"}

C6_NulTerminated ==
    /\ \A k \in PassedStrings : ArgBufferOf(k).nul
    /\ ~oob

\* C7: a call of plugin_entrypoint with args_len other than 2 has returned
\* Err "args_len should be 2" without reading an element of args; a call
\* with args_len 2 whose first value is no String or whose second value is no
\* UInt has returned Err; and in both cases no string pointer was read
\* through and repeat_impl did not run.
C7_Revalidates ==
    entryCalls > 0 =>
        /\ Len(passed) # 2 =>
              /\ result.kind = "Err"
              /\ payload.bytes = <<"args_len should be 2">>
              /\ argReads = {}
        /\ (Len(passed) # 2 \/ passed[1].tag # "String" \/ passed[2].tag # "UInt") =>
              /\ result.kind = "Err"
              /\ payload.state = "live"
              /\ derefs = {}
              /\ ~oob
              /\ implRuns = 0
              /\ decoded = <<>>

C7_Witness ==
    /\ entryCalls = 1
    /\ Len(passed) = 2
    /\ passed[1].tag = "String"
    /\ passed[2].tag = "String"
    /\ result.kind = "Err"
    /\ payload.bytes = <<"arg1 is invalid; expected UInt">>

\* How a finished run ended.
LoadFailed == pc = "done" /\ Len(args) >= 2 /\ metaCalls = 0

CountRejected == pc = "done" /\ metaCalls > 0 /\ metadata.arg_types_len # Supplied

PluginFailed == pc = "done" /\ result.kind = "Err"

Succeeded == pc = "done" /\ result.kind = "Ok"

\* The host has exited with status 0 after printing the result.
ExitedZero ==
    /\ exit = "exit0"
    /\ stdout[Len(stdout)] = <<"Plugin returned: ">> \o payload.bytes

\* C8 as stated: a run that ended in a load failure, a count mismatch or a
\* plugin-reported error has exited with status 1 and a message on standard
\* error; a run has exited with status 0, the result printed, exactly when
\* the invocation succeeded.
C8_ExitStatusOne ==
    pc = "done" =>
        /\ (LoadFailed \/ CountRejected \/ PluginFailed) =>
              (exit = "exit1" /\ Len(stderr) > 0)
        /\ Succeeded <=> ExitedZero
        /\ exit = "exit0" => Succeeded

\* C8 as amended: a run that ended in a count mismatch or a plugin-reported
\* error has exited with status 1 and a message on standard error; a run
\* that ended in a load failure has ended in the panic of expect, with its
\* message on standard error and exit status 101; a run has exited with
\* status 0, the result printed, exactly when the invocation succeeded.
C8_ExitStatus ==
    pc = "done" =>
        /\ (CountRejected \/ PluginFailed) => (exit = "exit1" /\ Len(stderr) > 0)
        /\ LoadFailed =>
              /\ exit = "exit101"
              /\ stderr = <<<<"panicked: ", "Could not load plugin">>>>
        /\ Succeeded <=> ExitedZero
        /\ exit = "exit0" => Succeeded

C8_Witness ==
    /\ LoadFailed
    /\ exit = "exit101"
    /\ Len(stderr) = 1

\* C9: an Ok result of plugin_entrypoint carries the text s of its first
\* argument repeated n times, n being its second argument: n * len(s) bytes,
\* byte k of which is byte k mod len(s) of s; it is empty when n = 0 and when
\* s is empty.  For a NUL-terminated argument buffer s is the buffer's bytes.
C9_RepeatConcat ==
    result.kind = "Ok" =>
        LET s == decoded
            n == passed[2].n
            out == payload.bytes
        IN  /\ ArgBufferOf(1).nul => s = ArgBufferOf(1).bytes
            /\ result.value.tag = "String"
            /\ Len(out) = n * Len(s)
            /\ \A k \in 1..Len(out) : out[k] = s[((k - 1) % Len(s)) + 1]
            /\ n = 0 => out = <<>>
            /\ s = <<>> => out = <<>>

C9_Witness ==
    /\ result.kind = "Ok"
    /\ ArgBufferOf(1).nul
    /\ ArgBufferOf(1).bytes = <<"a", "b">>
    /\ passed[2].n = 3
    /\ payload.bytes = <<"a", "b", "a", "b", "a", "b">>


\* C11: the name and arg_types pointers of the metadata the host holds point
\* into the library's static data; every read the host makes through them
\* happens while the library is mapped, reads live storage, and every read
\* of arg_types is at an index below arg_types_len and yields the type the
\* plugin declares at that index.
C11_MetadataStorageLive ==
    /\ metaCalls > 0 => (metadata.name_at = "static" /\ metadata.arg_types_at = "static")
    /\ \A r \in 1..Len(metaReads) :
          /\ metaReads[r].live
          /\ metaReads[r].field = "arg_types" =>
                /\ metaReads[r].idx < metadata.arg_types_len
                /\ metaReads[r].got = <<"String", "UInt">>[metaReads[r].idx + 1]

C11_Witness ==
    /\ Len(metaReads) = 3
    /\ metaReads[3].field = "arg_types"
    /\ metaReads[3].idx = 1
    /\ metaReads[3].got = "UInt"
    /\ metaReads[3].live


\* The run ended in the panic of a failed parse in the marshaling loop.
MarshalFailed == pc = "done" /\ metaCalls > 0 /\ exit = "exit101"

\* C12: when marshaling has failed on an argument, the message the host
\* reported last on standard error contains the position of that argument in
\* the argument list (counted from 0 or from 1).
C12_ReportsPosition ==
    MarshalFailed =>
        \E k \in 1..Len(stderr[Len(stderr)]) :
            stderr[Len(stderr)][k] \in {ToString(FirstBad - 1), ToString(FirstBad)}


\* A token that is a decimal integer: an optional sign, then digits; and the
\* integer it denotes.
IsInteger(tok) ==
    /\ Len(tok) > 0
    /\ IF tok[1] \in {"+", "-"}
       THEN Len(tok) > 1 /\ \A k \in 2..Len(tok) : IsDigit(tok[k])
       ELSE \A k \in 1..Len(tok) : IsDigit(tok[k])

IntegerOf(tok) ==
    IF tok[1] = "-" THEN 0 - DecVal(Tail(tok))
    ELSE IF tok[1] = "+" THEN DecVal(Tail(tok))
    ELSE DecVal(tok)

InRange(ty, v) ==
    IF ty = "UInt" THEN 0 <= v /\ v < Pow2(WordBits)
    ELSE 0 - Pow2(WordBits - 1) <= v /\ v < Pow2(WordBits - 1)

\* C13: in a run that passes the count check, an argument declared Int or
\* UInt whose token denotes an integer outside the range of that type is
\* never marshaled and the entry point is never called, the run ending in
\* the panic of a failed parse; and every Int or UInt value the host
\* marshals is the integer its token denotes, inside the range of its type.
C13_OverflowRejected ==
    (metaCalls > 0 /\ metadata.arg_types_len = Supplied) =>
        \A k \in 1..Supplied :
            LET ty == metadata.arg_types[k]
                tok == args[k + 2]
            IN  ty \in {"Int", "UInt"} =>
                  /\ (IsInteger(tok) /\ ~InRange(ty, IntegerOf(tok))) =>
                        /\ Len(call_args) < k
                        /\ Len(passed) < k
                        /\ entryCalls = 0
                        /\ pc = "done" => MarshalFailed
                  /\ \A a \in {call_args, passed} :
                        k <= Len(a) =>
                           /\ a[k].tag = ty
                           /\ IsInteger(tok)
                           /\ a[k].n = IntegerOf(tok)
                           /\ InRange(ty, a[k].n)

C13_Witness ==
    /\ MarshalFailed
    /\ metadata.arg_types = <<"Int", "UInt">>
    /\ args[3] = <<"3">>
    /\ args[4] = <<"-", "1">>
    /\ Len(call_args) = 1
    /\ stderr[Len(stderr)] = <<"panicked: ", "Invalid uint", ": ",
                                "ParseIntError { kind: ", "InvalidDigit", " }">>


HasBadByte(bytes) == \E k \in 1..Len(bytes) : bytes[k] = BadByte

\* The call passed the entry point's count and tag checks and its decoding
\* of the first argument is over.
Decoded ==
    /\ entryCalls > 0
    /\ Len(passed) = 2
    /\ passed[1].tag = "String"
    /\ passed[2].tag = "UInt"
    /\ pc # "entry_decode"

\* C14: when the buffer of the String argument holds a byte that is not
\* valid UTF-8, the entry point's decoding ends the call: from a buffer that
\* is NUL-terminated it returns Err "arg0 is invalid; expected valid UTF-8
\* string"; repeat_impl does not run, and it never runs on text that holds
\* such a byte.
C14_InvalidUtf8Rejected ==
    /\ implRuns > 0 => ~HasBadByte(decoded)
    /\ (Decoded /\ HasBadByte(ArgBufferOf(1).bytes)) =>
          /\ implRuns = 0
          /\ decoded = <<>>
          /\ ~panicked
          /\ result.kind # "Ok"
          /\ ArgBufferOf(1).nul =>
                /\ result.kind = "Err"
                /\ payload.bytes = <<"arg0 is invalid; expected valid UTF-8 string">>
                /\ pc = "returned"

C14_Witness ==
    /\ Decoded
    /\ ArgBufferOf(1).bytes = <<"a", BadByte>>
    /\ ArgBufferOf(1).nul
    /\ passed[2].n = 3
    /\ result.kind = "Err"
    /\ payload.bytes = <<"arg0 is invalid; expected valid UTF-8 string">>


\* C15: plugin_metadata is called at most once and only after the library
\* was loaded, exactly once in every run that has got past the load; no
\* argument is marshaled before that call; plugin_entrypoint is called at
\* most once, and only after the count check has passed and every argument
\* has been marshaled, each parsing under its declared type.
C15_BoundaryOrder ==
    /\ metaCalls <= 1
    /\ entryCalls <= 1
    /\ metaCalls = 1 <=> (libOk /\ Len(args) >= 2 /\ pc \notin {"start", "load", "metadata"})
    /\ (marshaled > 0 \/ call_args # <<>> \/ Len(metaReads) > 0) => metaCalls = 1
    /\ pc \in {"marshal", "call"} => (entryCalls = 0 /\ metadata.arg_types_len = Supplied)
    /\ pc = "call" => Len(call_args) = Supplied
    /\ entryCalls = 1 =>
          /\ metaCalls = 1
          /\ metadata.arg_types_len = Supplied
          /\ marshaled = Supplied
          /\ Len(passed) = Supplied
          /\ \A k \in 1..Supplied : ~ParseFails(k)
          /\ \A k \in 1..Supplied : passed[k].tag = metadata.arg_types[k]

C15_Witness ==
    /\ pc = "done"
    /\ exit = "exit0"
    /\ metaCalls = 1
    /\ marshaled = 2
    /\ entryCalls = 1
    /\ Len(metaReads) = 3


\* The messages of the entry point's count and tag checks.
TagErrors ==
    {<<"args_len should be 2">>,
     <<"arg0 is invalid; expected String">>,
     <<"arg1 is invalid; expected UInt">>}

\* C16: every argument array the host marshals from the declared schema and
\* passes to the entry point has the length and the tags the entry point
\* checks for: the entry point reads both tags and goes on to decode the
\* string, and neither its result nor standard error ever carries an
\* args_len or tag message.
C16_SchemaAgrees ==
    /\ entryCalls > 0 =>
          /\ Len(passed) = metadata.arg_types_len
          /\ \A k \in 1..Len(passed) : passed[k].tag = metadata.arg_types[k]
          /\ Len(passed) = 2
          /\ passed[1].tag = "String"
          /\ passed[2].tag = "UInt"
          /\ argReads = {0, 1}
          /\ pc # "call"
    /\ result.kind = "Err" => payload.bytes \notin TagErrors
    /\ \A k \in 1..Len(stderr) : stderr[k] \notin TagErrors

C16_Witness ==
    /\ pc = "entry_decode"
    /\ entryCalls = 1
    /\ marshaled = 2
    /\ passed = call_args
    /\ passed[1] = PluginValue("String", ArgPtr(3))
    /\ passed[2] = PluginValue("UInt", 3)
    /\ argReads = {0, 1}


(***************************************************************************)
(* The host with any library: the symbol main calls is whatever the loaded *)
(* file exports, so the call can come back with an Ok result of any        *)
(* variant, whatever return_type the library's metadata declares.          *)
(***************************************************************************)
ForeignTexts == {<<>>, <<"o", "k">>}

ForeignValues ==
    {PluginValue("Bool", TRUE), PluginValue("Int", -1), PluginValue("UInt", 3),
     PluginValue("Double", [neg |-> FALSE, text |-> <<"1", ".", "5">>])}

\* The call of line 128 into a library other than the repeat plugin.
ForeignEntrypoint ==
    /\ pc = "call"
    /\ entryCalls' = entryCalls + 1
    /\ passed' = call_args
    /\ \/ \E v \in ForeignValues :
            /\ result' = PluginOk(v)
            /\ UNCHANGED payload
       \/ \E t \in ForeignTexts :
            /\ result' = PluginOk(PluginValue("String", PluginPtr))
            /\ payload' = IntoRaw(t)
    /\ pc' = "returned"
    /\ UNCHANGED <<args, libOk, libMeta, metadata, call_args, mem, decoded,
                   stdout, stderr, exit, metaCalls, marshaled, implRuns,
                   argReads, derefs, oob, panicked, uaf, metaReads>>

NextAnyLibrary ==
    \/ Next
    \/ ForeignEntrypoint

SpecAnyLibrary == InitAnySchema /\ [][NextAnyLibrary]_vars

\* C17: an Ok result of the repeat plugin's entry point is a String, the
\* variant its metadata declares as return_type.  The host does not look at
\* metadata.return_type: whatever variant an Ok result has, declared or not,
\* main prints "Plugin returned: " and the value, writes nothing to standard
\* error, and exits with status 0.
C17_OkVariant ==
    /\ (result.kind = "Ok" /\ implRuns > 0) =>
          /\ plugin_metadata.return_type = "String"
          /\ result.value.tag = plugin_metadata.return_type
          /\ result.value.p = PluginPtr
    /\ (result.kind = "Ok" /\ pc \in {"return", "done"}) =>
          /\ Len(stdout) = 2
          /\ stdout[2] = <<"Plugin returned: ">> \o Display(result.value, payload)
          /\ stderr = <<>>
          /\ pc = "done" => exit = "exit0"

C17_Witness ==
    /\ pc = "done"
    /\ exit = "exit0"
    /\ result.kind = "Ok"
    /\ metadata.return_type = "String"
    /\ result.value = PluginValue("Int", -1)
    /\ stdout[2] = <<"Plugin returned: ", "-1">>

====
